---- MODULE Spec2Model ----
(***************************************************************************)
(* msh (src/shuck.c): the line interpreter as a state machine.             *)
(*                                                                         *)
(* A line is a sequence of tokens (the result of tokenize).  One line is   *)
(* read and taken through execute_command up to the point where the shell  *)
(* either is finished with it or is about to posix_spawn a child; spawning *)
(* and waiting are separate steps, interleaved with the steps of the child *)
(* processes (reading and writing their pipes, exiting).                   *)
(*                                                                         *)
(* Word arrays are 0-indexed in the source; At(words, i) is words[i], and  *)
(* the terminating NULL pointer is the string NULL.                        *)
(*                                                                         *)
(* SpecT is the same line as text: tokenize, store_command and the fgets   *)
(* loops that read the history file back, character by character.          *)
(***************************************************************************)
EXTENDS Naturals, Integers, Sequences, FiniteSets, TLC

VARIABLES
    pc,                 \* where the shell is: idle, spawn, wait, done, exited, crashed
    linesRead,          \* lines fgets has returned so far
    histExists,         \* $HOME/.msh_history exists
    history,            \* its lines, oldest first; a line is its words
    line,               \* the words of the line as read
    words,              \* execute_command's words (after ! and glob)
    mode,               \* none, direct, redir, pipe: which runner was entered
    number_arguments,   \* execute_command's count (max in the runners)
    input_r,            \* number of valid '<'
    output_r,           \* number of valid '>'
    pipe_count,         \* number of valid '|'
    programs,           \* resolved program of every stage (NULL past the end)
    i,                  \* pipes(): index of the stage being spawned / waited
    proc,               \* stage -> none, alive, exited, waited
    child,              \* stage -> how it was spawned and what it has left to do
    parentFds,          \* pipe ends open in the shell
    pipeBuf,            \* pipe -> bytes buffered in the kernel
    exit_status,        \* what the last waitpid stored
    inKind,             \* what stat/open find at the input path
    outKind,            \* what stat/open find at the output path
    outFile,            \* the output file: its bytes before and now, bytes written
    out,                \* what the shell printed for the current line
    txt                 \* a line as text: read, tokenized, stored, recalled

\* the variables of the interpreter
shell == <<pc, linesRead, histExists, history, line, words, mode,
           number_arguments, input_r, output_r, pipe_count, programs, i, proc,
           child, parentFds, pipeBuf, exit_status, inKind, outKind, outFile,
           out>>

vars == <<shell, txt>>

(***************************************************************************)
(* Bounds of the model.                                                    *)
(***************************************************************************)
\* longest line of the exhaustive specification SpecV
MaxLen == 4
\* most stages of a pipeline among the command lines of Spec
MaxStages == 3
\* lines read in one session of Spec
MaxLines == 1
\* most bytes a child writes to its standard output
MaxOut == 2
\* bytes a pipe buffers before a writer blocks
PipeCap == 1
\* most bytes the output file holds before the command runs
MaxPrior == 3
\* size of the line buffers of the text model (MAX_LINE_CHARS, which is
\* 1024 in the source: the arithmetic is the same for a small buffer)
MaxChars == 6

NULL == "NULL"

StageIds == 0 .. MaxStages
PipeIds == 0 .. (MaxStages - 1)

(***************************************************************************)
(* Words.                                                                  *)
(***************************************************************************)
\* words[i]: a token, the NULL that ends the array, or memory past the array
At(w, k) ==
    IF k < Len(w) THEN w[k + 1] ELSE IF k = Len(w) THEN NULL ELSE "OOB"

\* a pointer the code may pass to strcmp / strcpy / strdup
Deref(w, k) == k < Len(w)

\* the search path of main, and the files is_executable accepts
path == <<"/bin", "/usr/bin">>

\* (run is an executable file of the current directory: stat and faccessat
\* take a name without '/' relative to it)
ExecFiles == {"/bin/ls", "/usr/bin/ls", "/usr/bin/wc", "run"}

\* tokens that contain a '/'
SlashTokens == {"/bin/ls", "/no"}

is_executable(pathname) == pathname \in ExecFiles

\* tokens that contain one of * ? [ ~
GlobTokens == {"*"}

(***************************************************************************)
(* redirection_check_arg: the loop over words[0 .. count-1], with its      *)
(* break on an input error, then the choice of the message.                *)
(***************************************************************************)
\* a check that takes a '<' in any place of a line of three words or more
CheckInput_AnyPlace(k, count, acc) ==
    IF count < 3
    THEN [acc EXCEPT !.input_err = @ + 1]
    ELSE [acc EXCEPT !.input = @ + 1]

\* the body of the loop for a '<' at words[k]
CheckInput(k, count, acc) ==
    IF count < 3 \/ k # 0
    THEN [acc EXCEPT !.input_err = @ + 1]
    ELSE [acc EXCEPT !.input = @ + 1]

\* a check that takes a '>' third from the end whatever follows it
CheckOutput_Loose(k, count, w, e0, acc) ==
    IF k = 0 THEN [acc EXCEPT !.output_err = @ + e0 + 1]
    ELSE IF k = count - 3 \/ k = count - 2
    THEN [acc EXCEPT !.output_err = @ + e0, !.output = @ + 1]
    ELSE [acc EXCEPT !.output_err = @ + e0 + 1]

\* the body of the loop for a '>' at words[k]; e0 counts `count < 3'
CheckOutput(k, count, w, e0, acc) ==
    IF k = 0 THEN [acc EXCEPT !.output_err = @ + e0 + 1]
    ELSE IF k = count - 3
    THEN IF At(w, k + 1) = ">"
         THEN [acc EXCEPT !.output_err = @ + e0, !.output = @ + 1]
         ELSE [acc EXCEPT !.output_err = @ + e0 + 1]
    ELSE IF k = count - 2
    THEN [acc EXCEPT !.output_err = @ + e0, !.output = @ + 1]
    ELSE [acc EXCEPT !.output_err = @ + e0 + 1]

\* the same without the test for two '|' in a row
CheckPipe_NoAdjacent(k, count, w, e0, acc) ==
    IF k = 0 THEN [acc EXCEPT !.pipe_err = @ + e0 + 1]
    ELSE IF k = count - 1 THEN [acc EXCEPT !.pipe_err = @ + e0 + 1]
    ELSE [acc EXCEPT !.pipe_err = @ + e0, !.pipe_count = @ + 1]

\* the same without the test for a '|' in the last place
CheckPipe_NoLast(k, count, w, e0, acc) ==
    IF k = 0 THEN [acc EXCEPT !.pipe_err = @ + e0 + 1]
    ELSE IF k > 0 /\ At(w, k - 1) = At(w, k)
    THEN [acc EXCEPT !.pipe_err = @ + e0 + 1]
    ELSE [acc EXCEPT !.pipe_err = @ + e0, !.pipe_count = @ + 1]

\* the body of the loop for a '|' at words[k]
CheckPipe(k, count, w, e0, acc) ==
    IF k = 0 THEN [acc EXCEPT !.pipe_err = @ + e0 + 1]
    ELSE IF k = count - 1 THEN [acc EXCEPT !.pipe_err = @ + e0 + 1]
    ELSE IF k > 0 /\ At(w, k - 1) = At(w, k)
    THEN [acc EXCEPT !.pipe_err = @ + e0 + 1]
    ELSE [acc EXCEPT !.pipe_err = @ + e0, !.pipe_count = @ + 1]

RECURSIVE CheckLoop(_, _, _, _)
CheckLoop(k, count, w, acc) ==
    IF k >= count THEN acc
    ELSE IF At(w, k) = "<"
    THEN IF count < 3 \/ k # 0
         THEN CheckInput(k, count, acc)
         ELSE CheckLoop(k + 1, count, w, CheckInput(k, count, acc))
    ELSE IF At(w, k) = ">"
    THEN CheckLoop(k + 1, count, w,
                   CheckOutput(k, count, w, IF count < 3 THEN 1 ELSE 0, acc))
    ELSE IF At(w, k) = "|"
    THEN CheckLoop(k + 1, count, w,
                   CheckPipe(k, count, w, IF count < 3 THEN 1 ELSE 0, acc))
    ELSE CheckLoop(k + 1, count, w, acc)

\* lines 646-658: the message, by the first kind of error counted
CheckResult(r) ==
    [invalid |-> r.input_err + r.output_err + r.pipe_err > 0,
     msg |-> IF r.input_err > 0 THEN "invalid input redirection"
             ELSE IF r.output_err > 0 THEN "invalid output redirection"
             ELSE IF r.pipe_err > 0 THEN "invalid pipe"
             ELSE "",
     input |-> r.input, output |-> r.output, pipe_count |-> r.pipe_count]

redirection_check_arg(count, w) ==
    CheckResult(CheckLoop(0, count, w,
                    [input |-> 0, output |-> 0, pipe_count |-> 0,
                     input_err |-> 0, output_err |-> 0, pipe_err |-> 0]))

(***************************************************************************)
(* get_programs: one resolved path per command segment, NULL (with its     *)
(* message) when a segment names pwd, cd, history or !, or is not found on *)
(* the path.  words[i] is compared without a check for the end of words.   *)
(***************************************************************************)
RECURSIVE SearchPath(_, _)
SearchPath(tok, k) ==
    IF k > Len(path) THEN NULL
    ELSE IF is_executable(path[k] \o "/" \o tok) THEN path[k] \o "/" \o tok
    ELSE SearchPath(tok, k + 1)

\* lines 841-857: the path of a program name
FindProgram(exe) == IF exe \in SlashTokens THEN exe ELSE SearchPath(exe, 1)

RECURSIVE ProgramsLoop(_, _, _, _, _)
ProgramsLoop(k, max, w, new, acc) ==
    IF k >= max THEN [kind |-> "ok", programs |-> acc, tok |-> ""]
    ELSE IF ~Deref(w, k) THEN [kind |-> "crash", programs |-> acc, tok |-> ""]
    ELSE IF At(w, k) = ">" THEN [kind |-> "ok", programs |-> acc, tok |-> ""]
    ELSE IF At(w, k) = "|" THEN ProgramsLoop(k + 1, max, w, TRUE, acc)
    ELSE IF ~new THEN ProgramsLoop(k + 1, max, w, new, acc)
    ELSE IF At(w, k) \in {"pwd", "cd", "history", "!"}
    THEN [kind |-> "builtin", programs |-> acc, tok |-> At(w, k)]
    ELSE IF FindProgram(At(w, k)) = NULL
    THEN [kind |-> "notfound", programs |-> acc, tok |-> At(w, k)]
    ELSE ProgramsLoop(k + 1, max, w, FALSE, Append(acc, FindProgram(At(w, k))))

get_programs(max, w, input, output) ==
    ProgramsLoop(IF input > 0 THEN 2 ELSE 0, max, w, TRUE, <<>>)

\* programs[k] of the calloc'ed array: NULL from the terminator on
ProgramAt(ps, k) == IF k < Len(ps) THEN ps[k + 1] ELSE NULL

(***************************************************************************)
(* get_arguments: skip program_num '|' tokens, then copy up to the next    *)
(* '|' or '>' or to words[max-1].  Neither loop checks for the end of      *)
(* words.                                                                  *)
(***************************************************************************)
RECURSIVE SkipPipes(_, _, _, _)
SkipPipes(k, num, program_num, w) ==
    IF num >= program_num THEN k
    ELSE IF ~Deref(w, k) THEN -1
    ELSE SkipPipes(k + 1, IF At(w, k) = "|" THEN num + 1 ELSE num, program_num, w)

RECURSIVE CopyArgs(_, _, _, _)
CopyArgs(k, max, w, acc) ==
    IF k >= max THEN [crash |-> FALSE, args |-> acc]
    ELSE IF ~Deref(w, k) THEN [crash |-> TRUE, args |-> acc]
    ELSE IF At(w, k) \in {"|", ">"} THEN [crash |-> FALSE, args |-> acc]
    ELSE CopyArgs(k + 1, max, w, Append(acc, At(w, k)))

ArgsFrom(start, max, w) ==
    IF start < 0 THEN [crash |-> TRUE, args |-> <<>>]
    ELSE CopyArgs(start, max, w, <<>>)

get_arguments(max, w, input, output, program_num) ==
    ArgsFrom(SkipPipes(IF input > 0 THEN 2 ELSE 0, 0, program_num, w), max, w)

(***************************************************************************)
(* What the shell prints: one record per message.                          *)
(***************************************************************************)
Msg(kind, what, arg, stage) ==
    [kind |-> kind, what |-> what, arg |-> arg, stage |-> stage]

Error(what, arg) == Msg("error", what, arg, -1)

BuiltinRedir == "I/O redirection not permitted for builtin commands"

\* the words of a history line that are decimal numbers, and atoi of them
NumTokens == {"0", "1", "4294967296"}

\* the number a numeric token writes, as high * 2^16 + low
Decimal(tok) ==
    IF tok = "4294967296" THEN [high |-> 65536, low |-> 0]
    ELSE IF tok = "1" THEN [high |-> 0, low |-> 1]
    ELSE [high |-> 0, low |-> 0]

\* atoi is (int) strtol: the low 32 bits of the number, as a signed int
atoi(tok) ==
    (IF (Decimal(tok).high % 65536) >= 32768
     THEN (Decimal(tok).high % 65536) - 65536
     ELSE Decimal(tok).high % 65536) * 65536 + Decimal(tok).low

(***************************************************************************)
(* exclamation_check_arg / history_check_arg: at most one, numeric,        *)
(* argument.                                                               *)
(***************************************************************************)
check_arg(name, default, count, w) ==
    IF count > 2
    THEN [invalid |-> TRUE, num |-> default,
          msg |-> Error("too many arguments", name)]
    ELSE IF count = 2
    THEN IF At(w, 1) \in NumTokens
         THEN [invalid |-> FALSE, num |-> atoi(At(w, 1)), msg |-> Error("", "")]
         ELSE [invalid |-> TRUE, num |-> default,
               msg |-> Error("numeric argument required", name)]
    ELSE [invalid |-> FALSE, num |-> default, msg |-> Error("", "")]

exclamation_check_arg(count, w) == check_arg("!", -1, count, w)

DEFAULT_HISTORY_SHOWN == 10

history_check_arg(count, w) == check_arg("history", DEFAULT_HISTORY_SHOWN, count, w)

(***************************************************************************)
(* load_command returns a pointer into its own local array data[][]: the   *)
(* caller reads it after the frame is gone, and data[-1] (an empty file,   *)
(* no number given) lies outside the array.  The text the caller reads is  *)
(* then the entry or whatever the stack holds: every outcome is kept.      *)
(***************************************************************************)
\* what a stale or out-of-range stack slot may hold, as words
StaleText == {<<>>, <<"f">>}

load_command(command_num, hist, exists) ==
    IF ~exists
    THEN {[ptr |-> NULL, w |-> <<>>, msg |-> <<Error("msh_history", "")>>]}
    ELSE IF command_num = -1
    THEN IF Len(hist) - 1 < 0
         THEN {[ptr |-> "data", w |-> g, msg |-> <<>>] : g \in StaleText}
         ELSE {[ptr |-> "data", w |-> g, msg |-> <<>>] :
                  g \in {hist[Len(hist)]} \cup StaleText}
    ELSE IF command_num > Len(hist) - 1
    THEN {[ptr |-> NULL, w |-> <<>>,
           msg |-> <<Error("invalid history reference", "!")>>]}
    ELSE {[ptr |-> "data", w |-> g, msg |-> <<>>] :
             g \in {hist[command_num + 1]} \cup StaleText}

\* store_command: the words joined by single spaces, appended as one line
store_command(w, hist) == Append(hist, w)

(***************************************************************************)
(* execute_command, lines 145-219: validation, the ! builtin, recording.   *)
(* ld is the outcome of load_command that this run sees.                   *)
(***************************************************************************)
Counts(r) == [input |-> r.input, output |-> r.output, pipe_count |-> r.pipe_count]

NoCounts == [input |-> 0, output |-> 0, pipe_count |-> 0]

Stop(p, o, w, n, c) ==
    [stop |-> TRUE, pc |-> p, out |-> o, words |-> w, n |-> n, counts |-> c]

Go(o, w, n, c) ==
    [stop |-> FALSE, pc |-> "", out |-> o, words |-> w, n |-> n, counts |-> c]

\* printf("%s", command) with command = NULL prints (null) or faults
NullPrintf == {"printed", "fault"}

NoLoad == [ld |-> [ptr |-> "", w |-> <<>>, msg |-> <<>>], np |-> "printed"]

\* the outcomes of load_command and of the printf that this line can meet
Loads(w, r, a, hist, exists) ==
    IF Len(w) > 0 /\ ~r.invalid /\ At(w, 0) = "!"
       /\ r.input + r.output + r.pipe_count = 0 /\ ~a.invalid
    THEN {[ld |-> l, np |-> p] :
             l \in load_command(a.num, hist, exists), p \in NullPrintf}
    ELSE {NoLoad}

BangLoads(w, hist, exists) ==
    Loads(w, redirection_check_arg(Len(w), w), exclamation_check_arg(Len(w), w),
          hist, exists)

\* lines 197-215: the recalled words replace words and are checked again
Recalled(w2, r2) ==
    IF r2.invalid
    THEN Stop("done", <<Msg("echo", "command", "", -1), Error(r2.msg, "")>>,
              w2, Len(w2), NoCounts)
    ELSE Go(<<Msg("echo", "command", "", -1)>>, w2, Len(w2), Counts(r2))

Validated(w, n, r, a, ch) ==
    IF n = 0 THEN Stop("done", <<>>, w, n, NoCounts)
    ELSE IF r.invalid THEN Stop("done", <<Error(r.msg, "")>>, w, n, NoCounts)
    ELSE IF At(w, 0) # "!" THEN Go(<<>>, w, n, Counts(r))
    ELSE IF r.input + r.output + r.pipe_count > 0
    THEN Stop("done", <<Error(BuiltinRedir, "!")>>, w, n, Counts(r))
    ELSE IF a.invalid THEN Stop("done", <<a.msg>>, w, n, Counts(r))
    ELSE IF ch.ld.ptr = NULL
    THEN IF ch.np = "fault"
         THEN Stop("crashed", ch.ld.msg, w, n, Counts(r))
         ELSE Stop("done", ch.ld.msg \o <<Msg("echo", "(null)", "", -1)>>,
                   w, n, Counts(r))
    ELSE Recalled(ch.ld.w, redirection_check_arg(Len(ch.ld.w), ch.ld.w))

ValidateAndRecall(w, ch) ==
    Validated(w, Len(w), redirection_check_arg(Len(w), w),
              exclamation_check_arg(Len(w), w), ch)

(***************************************************************************)
(* check_glob.  word_num[] lists the indices of the words with a glob      *)
(* character and is scanned up to its first 0: when words[0] is itself a   *)
(* pattern the scan ends at once and `matches' is read uninitialised.      *)
(* Otherwise the result is words[0] followed by the matches of every       *)
(* pattern (GLOB_NOCHECK keeps a pattern that matches nothing), and that   *)
(* text is tokenized again.  m is what glob finds for the pattern.         *)
(***************************************************************************)
\* what glob may return for the pattern, by the files of the directory
GlobResults == {<<"*">>, <<"a.c">>, <<"a.c", "b.c">>}

RECURSIVE Matches(_, _, _)
Matches(w, k, m) ==
    IF k > Len(w) THEN <<>>
    ELSE (IF w[k] \in GlobTokens THEN m ELSE <<>>) \o Matches(w, k + 1, m)

HasGlob(w) == \E k \in 1 .. Len(w) : w[k] \in GlobTokens

\* gf: whether reading the uninitialised glob_t faults (else it reads as empty)
check_glob(w, m, gf) ==
    IF ~HasGlob(w) THEN [fault |-> FALSE, words |-> w]
    ELSE IF w[1] \in GlobTokens THEN [fault |-> gf, words |-> <<w[1]>>]
    ELSE [fault |-> FALSE, words |-> <<w[1]>> \o Matches(w, 1, m)]

(***************************************************************************)
(* Files.  The runners test st_mode & S_IRUSR / S_IWUSR, the owner's bits; *)
(* posix_spawn then opens the file with the shell's own credentials.       *)
(*   absent    no such file                                                *)
(*   nobit     exists, owner bit clear                                     *)
(*   noaccess  exists, owner bit set, the shell may not open it            *)
(*   ok        exists, owner bit set, the shell may open it                *)
(***************************************************************************)
FileNames == {"f", "a.c", "b.c"}

KindsOf(tok) ==
    IF tok = "f" THEN {"absent", "nobit", "noaccess", "ok"}
    ELSE IF tok \in FileNames THEN {"ok"}
    ELSE {"absent"}

OwnerBit(kind) == kind \in {"noaccess", "ok"}

CanOpen(kind) == kind = "ok"

\* the bytes of a file: "old" was there before the command, "new" is written
\* by it
Bytes(b, n) == [j \in 1 .. n |-> b]

NoFile == [prior |-> <<>>, data |-> <<>>, off |-> 0]

\* what the output file may hold when the line is read
PriorContents == {Bytes("old", n) : n \in {0, 1, MaxPrior}}

\* open(out, O_CREAT | O_WRONLY) and open(out, O_CREAT | O_WRONLY | O_APPEND):
\* neither flag set has O_TRUNC, the bytes of an existing file stay
OpenOutput(f, output) == [f EXCEPT !.off = 0]

\* write() of one byte at the file offset, or at the end with O_APPEND
WriteByte(f, output) ==
    IF output = 2 \/ f.off >= Len(f.data)
    THEN [f EXCEPT !.data = Append(@, "new"), !.off = @ + 1]
    ELSE [f EXCEPT !.data = [@ EXCEPT ![f.off + 1] = "new"], !.off = @ + 1]

(***************************************************************************)
(* do_exit: asserts words[0] is exit, prints a message for bad arguments,  *)
(* and calls exit() in every case.                                         *)
(***************************************************************************)
do_exit(w) ==
    IF At(w, 0) # "exit" THEN [pc |-> "crashed", out |-> <<>>]
    ELSE IF Len(w) >= 3
    THEN [pc |-> "exited", out |-> <<Error("too many arguments", "exit")>>]
    ELSE IF Len(w) = 2 /\ At(w, 1) \notin NumTokens
    THEN [pc |-> "exited", out |-> <<Error("numeric argument required", "exit")>>]
    ELSE [pc |-> "exited", out |-> <<>>]

(***************************************************************************)
(* The checks both in_out_redirection (663-693) and pipes (913-941) make   *)
(* before anything else: the input file exists and has S_IRUSR, the output *)
(* file, if it exists, has S_IWUSR.                                        *)
(***************************************************************************)
FileChecks(input, output, w, max, ik, ok) ==
    IF input > 0 /\ ik = "absent"
    THEN <<Error("No such file or directory", At(w, 1))>>
    ELSE IF input > 0 /\ ~OwnerBit(ik)
    THEN <<Error("Permission denied", At(w, 1))>>
    ELSE IF output > 0 /\ ok # "absent" /\ ~OwnerBit(ok)
    THEN <<Error("Permission denied", At(w, max - 1))>>
    ELSE <<>>

\* the pipe ends pipes() creates before pipe() fails at index fail (-1: never)
PipeEnds(n) == {<<p, e>> : p \in 0 .. (n - 1), e \in {"r", "w"}}

(***************************************************************************)
(* execute_command, lines 221-335, with the start of the runner it enters: *)
(* the `<' swap, exit, glob, the builtins, path search, and then           *)
(* run_program, in_out_redirection or get_programs + pipes up to their     *)
(* first posix_spawn.  env holds what this run finds outside the shell:    *)
(*   m     what glob returns for the pattern                               *)
(*   gf    whether reading the uninitialised glob_t faults                 *)
(*   ik,ok the kind of the input and of the output file                    *)
(*   pf    the index at which pipe() fails (-1: it does not)               *)
(*   cd    whether chdir succeeds                                          *)
(***************************************************************************)
Res(p, o, w, md, ps, ik, ok, fds) ==
    [pc |-> p, out |-> o, words |-> w, mode |-> md, programs |-> ps,
     inKind |-> ik, outKind |-> ok, fds |-> fds]

Finish(p, o, w) == Res(p, o, w, "none", <<>>, "na", "na", {})

Resolve(program) ==
    IF program \notin SlashTokens /\ SearchPath(program, 1) # NULL
    THEN SearchPath(program, 1)
    ELSE program

HasRedir(c) == c.input > 0 \/ c.output > 0 \/ c.pipe_count > 0

\* one line "%d: %s" of the listing: the number j and the text of data[j]
Row(j, text) ==
    [kind |-> "row", what |-> "history", arg |-> "", stage |-> j,
     text |-> text]

\* print_history: hist is the file as fgets reads it (data[0 .. i-1]);
\* the rows are those of j = starting_point .. i - 2
print_history(num, hist) ==
    [k \in 1 .. ((Len(hist) - 1)
                   - (IF Len(hist) - 1 - num < 0 THEN 0
                      ELSE Len(hist) - 1 - num)) |->
        Row((IF Len(hist) - 1 - num < 0 THEN 0 ELSE Len(hist) - 1 - num)
               + k - 1,
            hist[(IF Len(hist) - 1 - num < 0 THEN 0
                  ELSE Len(hist) - 1 - num) + k])]

\* hist: the history file once store_command has recorded this line
RunBuiltin(program, w, n, c, env, hist) ==
    IF HasRedir(c) THEN Finish("done", <<Error(BuiltinRedir, program)>>, w)
    ELSE IF program = "pwd"
    THEN IF n = 1 THEN Finish("done", <<Msg("builtin", "pwd", "", -1)>>, w)
         ELSE Finish("done", <<Error("too many arguments", "pwd")>>, w)
    ELSE IF program = "cd"
    THEN IF n > 2 THEN Finish("done", <<Error("too many arguments", "cd")>>, w)
         ELSE IF At(w, 1) = NULL \/ env.cd
         THEN Finish("done", <<Msg("builtin", "cd", "", -1)>>, w)
         ELSE Finish("done", <<Error("No such file or directory", "cd")>>, w)
    ELSE \* history
         IF n = 2 /\ ~Deref(w, 1) THEN Finish("crashed", <<>>, w)
         ELSE IF history_check_arg(n, w).invalid
         THEN Finish("done", <<history_check_arg(n, w).msg>>, w)
         ELSE Finish("done",
                     <<Msg("builtin", "history", "", -1)>>
                         \o print_history(history_check_arg(n, w).num, hist),
                     w)

RunExternal(program, w, n, c, env) ==
    LET checks == FileChecks(c.input, c.output, w, n, env.ik, env.ok)
        gp == get_programs(n, w, c.input, c.output)
    IN  IF ~is_executable(program)
        THEN Finish("done", <<Error("command not found", program)>>, w)
        ELSE IF c.pipe_count = 0
        THEN IF c.input = 0 /\ c.output = 0
             THEN Res("spawn", <<>>, w, "direct", <<program>>, "na", "na", {})
             ELSE IF checks # <<>> THEN Finish("done", checks, w)
             ELSE IF c.output > 0 /\ ~Deref(w, n - 1) THEN Finish("crashed", <<>>, w)
             ELSE Res("spawn", <<>>, w, "redir", <<program>>,
                      IF c.input > 0 THEN env.ik ELSE "na",
                      IF c.output > 0 THEN env.ok ELSE "na", {})
        ELSE IF gp.kind = "crash" THEN Finish("crashed", <<>>, w)
        ELSE IF gp.kind = "builtin"
        THEN Finish("done", <<Error(BuiltinRedir, gp.tok)>>, w)
        ELSE IF gp.kind = "notfound"
        THEN Finish("done", <<Error("command not found", gp.tok)>>, w)
        ELSE IF checks # <<>> THEN Finish("done", checks, w)
        ELSE IF env.pf >= 0
        THEN Res("done", <<Error("pipe", "")>>, w, "none", gp.programs,
                 "na", "na", PipeEnds(env.pf))
        ELSE Res("spawn", <<>>, w, "pipe", gp.programs,
                 IF c.input > 0 THEN env.ik ELSE "na",
                 IF c.output > 0 THEN env.ok ELSE "na", PipeEnds(c.pipe_count))

Dispatch(w, n, c, env, hist) ==
    LET program == IF At(w, 0) = "<" THEN At(w, 2) ELSE At(w, 0)
        g == check_glob(w, env.m, env.gf)
    IN  IF At(w, 0) = NULL THEN Finish("crashed", <<>>, w)
        ELSE IF program = "exit"
        THEN Finish(do_exit(w).pc, do_exit(w).out, w)
        ELSE IF g.fault THEN Finish("crashed", <<>>, w)
        ELSE IF program \in {"pwd", "cd", "history"}
        THEN RunBuiltin(program, g.words, n, c, env, hist)
        ELSE RunExternal(Resolve(program), g.words, n, c, env)

\* the environments that can make a difference to this line
Envs(w, n, c) ==
    LET first == HasGlob(w) /\ w[1] \in GlobTokens
        ms == IF HasGlob(w) /\ ~first THEN GlobResults ELSE {<<>>}
        Of(m) ==
          LET g == check_glob(w, m, FALSE).words
              iks == IF c.input > 0 THEN KindsOf(At(g, 1)) ELSE {"na"}
              oks == IF c.output > 0 THEN KindsOf(At(g, n - 1)) ELSE {"na"}
              all == {[m |-> m, gf |-> gf, ik |-> ik, ok |-> ok, pf |-> pf,
                       cd |-> cd] :
                        gf \in (IF first THEN BOOLEAN ELSE {FALSE}),
                        ik \in iks, ok \in oks,
                        pf \in (IF c.pipe_count > 0
                                THEN -1 .. (c.pipe_count - 1) ELSE {-1}),
                        cd \in (IF At(w, 0) = "cd" THEN BOOLEAN ELSE {TRUE})}
          IN  {e \in all :
                 (c.input > 0 /\ c.output > 0 /\ At(g, 1) = At(g, n - 1))
                    => ((e.ik = "absent") <=> (e.ok = "absent"))}
    IN  UNION {Of(m) : m \in ms}

(***************************************************************************)
(* Child processes.  A child is bound to its standard input and output by  *)
(* the file actions of its posix_spawn, inherits every descriptor open in  *)
(* the shell at that moment, writes toWrite bytes to its standard output,  *)
(* reads its standard input to end-of-file and exits.                      *)
(***************************************************************************)
Inherit == [kind |-> "inherit", pipe |-> -1, file |-> ""]

File(name) == [kind |-> "file", pipe |-> -1, file |-> name]

Pipe(p) == [kind |-> "pipe", pipe |-> p, file |-> ""]

NoChild ==
    [stdin |-> Inherit, stdout |-> Inherit, argv |-> <<>>, path |-> "",
     toWrite |-> 0, fds |-> {}, status |-> "none"]

ExitStatuses == {"exit0", "exit1", "signal"}

WIFEXITED(status) == status \in {"exit0", "exit1"}

\* some process still holds this end of the pipe open
Held(end) ==
    \/ end \in parentFds
    \/ \E k \in StageIds : proc[k] = "alive" /\ end \in child[k].fds

(***************************************************************************)
(* in_out_redirection, lines 731-777: the arguments of the child are the   *)
(* words between `< file' and the first `>'.                               *)
(***************************************************************************)
RECURSIVE CopyUntil(_, _, _, _)
CopyUntil(k, w, stopAtOut, acc) ==
    IF At(w, k) = NULL /\ ~stopAtOut THEN [crash |-> FALSE, args |-> acc]
    ELSE IF ~Deref(w, k) THEN [crash |-> TRUE, args |-> acc]
    ELSE IF stopAtOut /\ At(w, k) = ">" THEN [crash |-> FALSE, args |-> acc]
    ELSE CopyUntil(k + 1, w, stopAtOut, Append(acc, At(w, k)))

RedirArgs(w, input, output) ==
    IF input = 0 THEN CopyUntil(0, w, TRUE, <<>>)
    ELSE CopyUntil(2, w, output > 0, <<>>)

(***************************************************************************)
(* The file actions of one posix_spawn and whether the spawn can succeed.  *)
(***************************************************************************)
\* pipes(): which branch of the loop stage k takes
Position(k) ==
    IF k = 0 THEN "first" ELSE IF k = pipe_count THEN "last" ELSE "middle"

StdinOf(k) ==
    IF mode = "direct" THEN Inherit
    ELSE IF mode = "redir" \/ Position(k) = "first"
    THEN IF input_r > 0 THEN File(At(words, 1)) ELSE Inherit
    ELSE Pipe(k - 1)

StdoutOf(k) ==
    IF mode = "direct" THEN Inherit
    ELSE IF mode = "redir" \/ Position(k) = "last"
    THEN IF output_r > 0 THEN File(At(words, number_arguments - 1)) ELSE Inherit
    ELSE Pipe(k)

ArgsOf(k) ==
    IF mode = "direct" THEN [crash |-> FALSE, args |-> words]
    ELSE IF mode = "redir" THEN RedirArgs(words, input_r, output_r)
    ELSE get_arguments(number_arguments, words, input_r, output_r, k)

\* get_arguments, lines 896-906: calloc(max) holds max pointers; when all of
\* words[0 .. max-1] are copied the NULL that ends them is written past it
Overflows(k) == mode = "pipe" /\ Len(ArgsOf(k).args) >= number_arguments

\* free_tokens on the overrun block: the allocator aborts, or it does not
HeapFaults(k) == IF Overflows(k) THEN BOOLEAN ELSE {FALSE}

\* a file action names a path that is no string at all
BadPath(k) ==
    \/ StdinOf(k).kind = "file" /\ ~Deref(words, 1)
    \/ StdoutOf(k).kind = "file" /\ ~Deref(words, number_arguments - 1)

\* the opens and dup2s of the file actions succeed in the new process
ActionsOk(k) ==
    /\ StdinOf(k).kind = "file" => CanOpen(inKind)
    /\ StdoutOf(k).kind = "file" => (outKind = "absent" \/ CanOpen(outKind))
    /\ StdinOf(k).kind = "pipe" => <<StdinOf(k).pipe, "r">> \in parentFds
    /\ StdoutOf(k).kind = "pipe" => <<StdoutOf(k).pipe, "w">> \in parentFds

\* a shell that closes nothing after a posix_spawn
ClosedAfterSpawn_None(k) == {}

\* the descriptors the shell closes right after stage k's posix_spawn
ClosedAfterSpawn(k) ==
    IF mode = "pipe" /\ Position(k) # "last" THEN {<<k, "w">>} ELSE {}

\* a wait that returns while the child still runs
WaitReturns_NoBlock(k) == proc[k] \in {"alive", "exited"}

\* waitpid(pid, &exit_status, 0) returns once the child has exited
WaitReturns(k) == proc[k] = "exited"

\* a status line after every wait
PrintsStatus_Always(k) == mode # "none"

\* the runner prints the status line after this wait
PrintsStatus(k) == mode # "pipe" \/ Position(k) = "last"

(***************************************************************************)
(* The lines the shell is given.                                           *)
(***************************************************************************)
\* every line of at most MaxLen words over these tokens
TokV == {"<", ">", "|", "!", "pwd", "exit", "ls", "f", "*"}

AllLines == UNION {[1 .. n -> TokV] : n \in 0 .. MaxLen}

\* command lines: single commands and pipelines, with and without files
Cmd(k) == IF k % 2 = 0 THEN <<"ls">> ELSE <<"wc", "-l">>

RECURSIVE Pipeline(_)
Pipeline(n) == IF n = 1 THEN Cmd(0) ELSE Pipeline(n - 1) \o <<"|">> \o Cmd(n - 1)

InPart == {<<>>, <<"<", "f">>}

OutPart == {<<>>, <<">", "f">>, <<">", ">", "f">>}

CmdLines ==
    {a \o Pipeline(n) \o b : a \in InPart, b \in OutPart, n \in 1 .. MaxStages}
    \cup {<<>>, <<"pwd">>, <<"cd", "f">>, <<"history">>, <<"exit">>,
          <<"exit", "f">>, <<"exit", "0", "0">>, <<"<", "f", "exit">>,
          <<"history", "1">>, <<"history", "4294967296">>, <<"history", "f">>,
          <<"history", "0", "0">>,
          <<"!">>, <<"!", "0">>, <<"!", "1">>, <<"!", "4294967296">>,
          <<"f">>, <<"ls", "*">>, <<"|", "ls">>,
          <<"ls", "|", ">", "f">>, <<"exit", ">", "f">>, <<"ls", "|", "pwd">>,
          <<"ls", "|", "wc", "*">>, <<"<", "f", "ls", "*">>, <<"ls", "|", "*">>,
          <<"ls", "|", "exit">>, <<"<", "f", "pwd">>, <<"run">>,
          <<"run", ">", "f">>, <<"ls", "|", "run">>, <<"/bin/ls">>, <<"/no">>,
          <<"ls", "|", "/no">>, <<"/no", "|", "ls">>}

\* $HOME/.msh_history as an earlier run of the shell may have left it
InitHistories == {<<>>, << <<"ls">> >>, << <<"ls">>, <<"pwd">> >>}

(***************************************************************************)
(* A line as text (a sequence of characters).  main reads at most          *)
(* MAX_LINE_CHARS - 1 characters with fgets and tokenizes them;            *)
(* store_command writes the words joined by single spaces and a newline;   *)
(* load_command reads the file back with fgets into                        *)
(* data[][MAX_LINE_CHARS], and execute_command tokenizes the text it       *)
(* returns, checks it and stores it again.                                 *)
(***************************************************************************)
\* characters of the text model: a letter, a blank and two special ones
Chars == {"a", " ", "|", ">"}

WORD_SEPARATORS == {" ", "\t", "\r", "\n"}

SPECIAL_CHARS == {"!", ">", "<", "|"}

RECURSIVE strspn(_, _)
strspn(s, set) ==
    IF s # <<>> /\ Head(s) \in set THEN 1 + strspn(Tail(s), set) ELSE 0

RECURSIVE strcspn(_, _)
strcspn(s, set) ==
    IF s # <<>> /\ Head(s) \notin set THEN 1 + strcspn(Tail(s), set) ELSE 0

\* s += n
Skip(s, n) == SubSeq(s, n + 1, Len(s))

\* a token that runs up to the next separator, special characters or not
TokenLength_NoSpecials(s) == strcspn(s, WORD_SEPARATORS)

\* lines 1163-1170: up to the next separator, cut before a special
\* character; a special character in front is a token of its own
TokenLength(s) ==
    IF (IF strcspn(s, SPECIAL_CHARS) = 0 THEN 1
        ELSE strcspn(s, SPECIAL_CHARS)) < strcspn(s, WORD_SEPARATORS)
    THEN (IF strcspn(s, SPECIAL_CHARS) = 0 THEN 1
          ELSE strcspn(s, SPECIAL_CHARS))
    ELSE strcspn(s, WORD_SEPARATORS)

RECURSIVE tokenize(_)
\* s points at a character to keep: one token, then the rest
TokensFrom(s) ==
    IF s = <<>> THEN <<>>
    ELSE <<SubSeq(s, 1, TokenLength(s))>> \o tokenize(Skip(s, TokenLength(s)))

tokenize(s) == TokensFrom(Skip(s, strspn(s, WORD_SEPARATORS)))

\* store_command, lines 479-486: the words, a space between two of them,
\* and a newline
RECURSIVE store_text(_)
store_text(w) ==
    IF w = <<>> THEN <<"\n">>
    ELSE Head(w) \o (IF Tail(w) # <<>> THEN <<" ">> ELSE <<>>)
             \o store_text(Tail(w))

\* fgets(buf, n, fp): the number of characters it takes from f, at most
\* n - 1 and none after a newline
RECURSIVE fgets(_, _)
fgets(f, n) ==
    IF f = <<>> \/ n <= 1 THEN 0
    ELSE IF Head(f) = "\n" THEN 1
    ELSE 1 + fgets(Tail(f), n - 1)

\* the loop of lines 506-508 (and 449-451): data[0], data[1], ...
RECURSIVE ReadData(_)
ReadData(f) ==
    IF f = <<>> THEN <<>>
    ELSE <<SubSeq(f, 1, fgets(f, MaxChars))>>
             \o ReadData(Skip(f, fgets(f, MaxChars)))

\* what a stale stack slot may hold, as text
StaleChars == {<<>>, <<"a", "\n">>}

\* a token as the validator compares it: a special character or a word
WordOf(tok) == IF Len(tok) = 1 /\ tok[1] \in SPECIAL_CHARS THEN tok[1] ELSE "w"

WordsOf(w) == [k \in 1 .. Len(w) |-> WordOf(w[k])]

\* the lines fgets can hand to main: up to MaxChars - 2 characters and
\* the newline
Inputs ==
    {t \o <<"\n">> : t \in UNION {[1 .. n -> Chars] : n \in 0 .. (MaxChars - 2)}}

NoText ==
    [step |-> "off", line |-> <<>>, command_words |-> <<>>, file |-> <<>>,
     command |-> <<>>, words |-> <<>>, stale |-> FALSE]

(***************************************************************************)
(* State.                                                                  *)
(***************************************************************************)
ShellInit ==
    /\ pc = "idle"
    /\ linesRead = 0
    /\ histExists \in BOOLEAN
    /\ history \in {h \in InitHistories : h # <<>> => histExists}
    /\ line = <<>>
    /\ words = <<>>
    /\ mode = "none"
    /\ number_arguments = 0
    /\ input_r = 0
    /\ output_r = 0
    /\ pipe_count = 0
    /\ programs = <<>>
    /\ i = 0
    /\ proc = [k \in StageIds |-> "none"]
    /\ child = [k \in StageIds |-> NoChild]
    /\ parentFds = {}
    /\ pipeBuf = [p \in PipeIds |-> 0]
    /\ exit_status = "none"
    /\ inKind = "na"
    /\ outKind = "na"
    /\ outFile = NoFile
    /\ out = <<>>

Init == ShellInit /\ txt = NoText

\* the text model starts with a line read and no history file
InitT ==
    /\ ShellInit /\ ~histExists
    /\ txt \in {[NoText EXCEPT !.step = "read", !.line = l] : l \in Inputs}

\* main, lines 119-125, and execute_command up to its first posix_spawn
ReadLineFrom(L, cap) ==
    /\ UNCHANGED txt
    /\ pc = "idle"
    /\ linesRead < cap
    /\ \E l \in L : \E ch \in BangLoads(l, history, histExists) :
         LET a == ValidateAndRecall(l, ch) IN
         /\ line' = l
         /\ linesRead' = linesRead + 1
         /\ number_arguments' = a.n
         /\ input_r' = a.counts.input
         /\ output_r' = a.counts.output
         /\ pipe_count' = a.counts.pipe_count
         /\ i' = 0
         /\ UNCHANGED <<proc, child, pipeBuf, exit_status>>
         /\ IF a.stop
            THEN /\ pc' = a.pc
                 /\ out' = a.out
                 /\ words' = a.words
                 /\ mode' = "none"
                 /\ programs' = <<>>
                 /\ parentFds' = {}
                 /\ inKind' = "na"
                 /\ outKind' = "na"
                 /\ outFile' = NoFile
                 /\ UNCHANGED <<history, histExists>>
            ELSE \E env \in Envs(a.words, a.n, a.counts) :
                 LET d == Dispatch(a.words, a.n, a.counts, env,
                                   store_command(a.words, history)) IN
                 /\ history' = store_command(a.words, history)
                 /\ histExists' = TRUE
                 /\ pc' = d.pc
                 /\ out' = a.out \o d.out
                 /\ words' = d.words
                 /\ mode' = d.mode
                 /\ programs' = d.programs
                 /\ parentFds' = d.fds
                 /\ inKind' = d.inKind
                 /\ outKind' = d.outKind
                 /\ \E prior \in (IF d.pc = "spawn" /\ d.outKind = "ok"
                                  THEN PriorContents ELSE {<<>>}) :
                      outFile' = [prior |-> prior, data |-> prior, off |-> 0]

ReadLine == ReadLineFrom(CmdLines, MaxLines)

\* the first line of a session, any line of at most MaxLen words
ReadLineV == linesRead = 0 /\ ReadLineFrom(AllLines, MaxLines)

(***************************************************************************)
(* posix_spawn of stage i with its file actions, and the close that        *)
(* follows it.  A failed spawn ends the runner; run_program alone goes on  *)
(* to waitpid on the pid it never got and to test the exit_status it never *)
(* set, which may or may not read as a normal exit.                        *)
(***************************************************************************)
Spawn ==
    /\ UNCHANGED txt
    /\ pc = "spawn"
    /\ UNCHANGED <<linesRead, histExists, history, line, words, mode,
                   number_arguments, input_r, output_r, pipe_count, programs,
                   i, pipeBuf, inKind, outKind>>
    /\ IF ArgsOf(i).crash \/ BadPath(i)
       THEN /\ pc' = "crashed"
            /\ UNCHANGED <<proc, child, parentFds, exit_status, outFile, out>>
       ELSE \E spawned \in BOOLEAN :
            IF spawned /\ is_executable(ProgramAt(programs, i)) /\ ActionsOk(i)
            THEN \E n \in (IF StdoutOf(i).kind \in {"pipe", "file"}
                           THEN 0 .. MaxOut ELSE {0}) :
                 /\ proc' = [proc EXCEPT ![i] = "alive"]
                 /\ child' = [child EXCEPT ![i] =
                        [stdin |-> StdinOf(i), stdout |-> StdoutOf(i),
                         argv |-> ArgsOf(i).args, path |-> ProgramAt(programs, i),
                         toWrite |-> n, fds |-> parentFds, status |-> "running"]]
                 /\ parentFds' = parentFds \ ClosedAfterSpawn(i)
                 /\ pc' = "wait"
                 /\ outFile' = IF StdoutOf(i).kind = "file"
                               THEN OpenOutput(outFile, output_r) ELSE outFile
                 /\ UNCHANGED <<exit_status, out>>
            ELSE /\ pc' = "done"
                 /\ UNCHANGED <<proc, child, parentFds, outFile>>
                 /\ IF mode = "direct"
                    THEN \E st \in ExitStatuses :
                         /\ exit_status' = st
                         /\ out' = out \o <<Error("spawn", ""), Error("waitpid", "")>>
                               \o (IF WIFEXITED(st)
                                   THEN <<Msg("status", programs[1], st, 0)>>
                                   ELSE <<>>)
                    ELSE /\ out' = Append(out, Error("spawn", ""))
                         /\ UNCHANGED exit_status

(***************************************************************************)
(* waitpid on stage i, the status line, and the end of the loop body.      *)
(***************************************************************************)
Wait ==
    /\ UNCHANGED txt
    /\ pc = "wait"
    /\ WaitReturns(i)
    /\ UNCHANGED <<linesRead, histExists, history, line, words, mode,
                   number_arguments, input_r, output_r, pipe_count, programs,
                   parentFds, pipeBuf, inKind, outKind, outFile>>
    /\ exit_status' = child[i].status
    /\ proc' = [proc EXCEPT ![i] = IF @ = "exited" THEN "waited" ELSE @]
    /\ child' = [child EXCEPT ![i].status = "none"]
    /\ out' = IF PrintsStatus(i) /\ WIFEXITED(child[i].status)
              THEN Append(out, Msg("status", child[i].path, child[i].status, i))
              ELSE out
    /\ \E abort \in HeapFaults(i) :
         IF abort THEN pc' = "crashed" /\ i' = i
         ELSE IF mode = "pipe" /\ Position(i) # "last"
         THEN pc' = "spawn" /\ i' = i + 1
         ELSE pc' = "done" /\ i' = i

(***************************************************************************)
(* The steps of a child.                                                   *)
(***************************************************************************)
ChildWrite(k) ==
    /\ UNCHANGED txt
    /\ proc[k] = "alive"
    /\ child[k].toWrite > 0
    /\ UNCHANGED <<pc, linesRead, histExists, history, line, words, mode,
                   number_arguments, input_r, output_r, pipe_count, programs,
                   i, parentFds, exit_status, inKind, outKind, out>>
    /\ IF child[k].stdout.kind # "pipe"
       THEN /\ child' = [child EXCEPT ![k].toWrite = @ - 1]
            /\ outFile' = IF child[k].stdout.kind = "file"
                          THEN WriteByte(outFile, output_r) ELSE outFile
            /\ UNCHANGED <<proc, pipeBuf>>
       ELSE LET p == child[k].stdout.pipe IN
            IF ~Held(<<p, "r">>)
            THEN \* SIGPIPE
                 /\ proc' = [proc EXCEPT ![k] = "exited"]
                 /\ child' = [child EXCEPT ![k].status = "signal", ![k].fds = {},
                                           ![k].toWrite = 0]
                 /\ UNCHANGED <<pipeBuf, outFile>>
            ELSE /\ pipeBuf[p] < PipeCap
                 /\ pipeBuf' = [pipeBuf EXCEPT ![p] = @ + 1]
                 /\ child' = [child EXCEPT ![k].toWrite = @ - 1]
                 /\ UNCHANGED <<proc, outFile>>

ChildRead(k) ==
    /\ UNCHANGED txt
    /\ proc[k] = "alive"
    /\ child[k].stdin.kind = "pipe"
    /\ pipeBuf[child[k].stdin.pipe] > 0
    /\ pipeBuf' = [pipeBuf EXCEPT ![child[k].stdin.pipe] = @ - 1]
    /\ UNCHANGED <<pc, linesRead, histExists, history, line, words, mode,
                   number_arguments, input_r, output_r, pipe_count, programs,
                   i, proc, child, parentFds, exit_status, inKind, outKind,
                   outFile, out>>

\* end-of-file on a pipe: nothing buffered and no write end open anywhere
AtEof(k) ==
    child[k].stdin.kind = "pipe" =>
        /\ pipeBuf[child[k].stdin.pipe] = 0
        /\ ~Held(<<child[k].stdin.pipe, "w">>)

ChildExit(k) ==
    /\ UNCHANGED txt
    /\ proc[k] = "alive"
    /\ child[k].toWrite = 0
    /\ AtEof(k)
    /\ \E st \in ExitStatuses :
         child' = [child EXCEPT ![k].status = st, ![k].fds = {}]
    /\ proc' = [proc EXCEPT ![k] = "exited"]
    /\ UNCHANGED <<pc, linesRead, histExists, history, line, words, mode,
                   number_arguments, input_r, output_r, pipe_count, programs,
                   i, parentFds, pipeBuf, exit_status, inKind, outKind, outFile,
                   out>>

(***************************************************************************)
(* main: execute_command has returned; back to the top of the loop.  The   *)
(* per-line state is dropped (descriptors left open by earlier lines are   *)
(* not followed any further).                                              *)
(***************************************************************************)
NextLine ==
    /\ UNCHANGED txt
    /\ pc = "done"
    /\ pc' = "idle"
    /\ line' = <<>>
    /\ words' = <<>>
    /\ mode' = "none"
    /\ number_arguments' = 0
    /\ input_r' = 0
    /\ output_r' = 0
    /\ pipe_count' = 0
    /\ programs' = <<>>
    /\ i' = 0
    /\ proc' = [k \in StageIds |-> "none"]
    /\ child' = [k \in StageIds |-> NoChild]
    /\ parentFds' = {}
    /\ pipeBuf' = [p \in PipeIds |-> 0]
    /\ exit_status' = "none"
    /\ inKind' = "na"
    /\ outKind' = "na"
    /\ outFile' = NoFile
    /\ out' = <<>>
    /\ UNCHANGED <<linesRead, histExists, history>>

\* main, line 120: fgets returns NULL
EndOfInput ==
    /\ UNCHANGED txt
    /\ pc = "idle"
    /\ pc' = "exited"
    /\ UNCHANGED <<linesRead, histExists, history, line, words, mode,
                   number_arguments, input_r, output_r, pipe_count, programs,
                   i, proc, child, parentFds, pipeBuf, exit_status, inKind,
                   outKind, outFile, out>>

Children == \E k \in StageIds : ChildWrite(k) \/ ChildRead(k) \/ ChildExit(k)

Next == ReadLine \/ Spawn \/ Wait \/ Children \/ NextLine \/ EndOfInput

Spec == Init /\ [][Next]_vars

NextV == ReadLineV \/ Spawn \/ Wait \/ Children \/ NextLine \/ EndOfInput

SpecV == Init /\ [][NextV]_vars

(***************************************************************************)
(* The steps of the text model.                                            *)
(***************************************************************************)
\* main, line 123: the line is tokenized; no word, nothing to do (153)
Tokenize ==
    /\ txt.step = "read"
    /\ txt' = [txt EXCEPT !.command_words = tokenize(txt.line),
                          !.step = IF tokenize(txt.line) = <<>> THEN "end"
                                   ELSE "tokenized"]
    /\ UNCHANGED shell

\* lines 162-167 and 219: a line that passes the validator is stored
Store ==
    /\ txt.step = "tokenized"
    /\ IF redirection_check_arg(Len(txt.command_words),
                                WordsOf(txt.command_words)).invalid
       THEN txt' = [txt EXCEPT !.step = "end"]
       ELSE txt' = [txt EXCEPT !.file = @ \o store_text(txt.command_words),
                               !.step = "stored"]
    /\ UNCHANGED shell

\* the next line is `!': load_command returns the last of data[], read
\* after its frame is gone, and lines 197-198 tokenize it
Load ==
    /\ txt.step = "stored"
    /\ \E c \in {ReadData(txt.file)[Len(ReadData(txt.file))]} \cup StaleChars :
         txt' = [txt EXCEPT
                   !.command = c,
                   !.stale = (c # ReadData(txt.file)[Len(ReadData(txt.file))]),
                   !.words = tokenize(c),
                   !.step = "loaded"]
    /\ UNCHANGED shell

\* lines 210-219: the recalled words are checked and stored
StoreRecalled ==
    /\ txt.step = "loaded"
    /\ IF redirection_check_arg(Len(txt.words), WordsOf(txt.words)).invalid
       THEN txt' = [txt EXCEPT !.step = "end"]
       ELSE txt' = [txt EXCEPT !.file = @ \o store_text(txt.words),
                               !.step = "recorded"]
    /\ UNCHANGED shell

NextT == Tokenize \/ Store \/ Load \/ StoreRecalled

SpecT == InitT /\ [][NextT]_vars

(***************************************************************************)
(* The token sequence as the specification reads it: an optional `< file'  *)
(* in front, an optional `> file' or `> > file' at the end, and between    *)
(* them the command segments separated by `|'.                             *)
(***************************************************************************)
HasIn(w) == Len(w) >= 1 /\ w[1] = "<"

OutLen(w) ==
    IF Len(w) >= 3 /\ w[Len(w) - 1] = ">"
    THEN IF w[Len(w) - 2] = ">" THEN 3 ELSE 2
    ELSE 0

Body(w) == SubSeq(w, IF HasIn(w) THEN 3 ELSE 1, Len(w) - OutLen(w))

RECURSIVE SplitAt(_, _, _)
SplitAt(b, k, cur) ==
    IF k > Len(b) THEN <<cur>>
    ELSE IF b[k] = "|" THEN <<cur>> \o SplitAt(b, k + 1, <<>>)
    ELSE SplitAt(b, k + 1, Append(cur, b[k]))

Stages(w) == SplitAt(Body(w), 1, <<>>)

Positions(l, t) == {k \in 0 .. (Len(l) - 1) : l[k + 1] = t}

\* the positional rules of the validator as the specification states them
InputRuleOk(l) == \A k \in Positions(l, "<") : k = 0 /\ Len(l) >= 3

\* (a `>' in place 0 is never valid, also as the first of two in a line of
\* three words)
OutputRuleOk(l) ==
    \/ Positions(l, ">") = {}
    \/ /\ Len(l) >= 3
       /\ 0 \notin Positions(l, ">")
       /\ \/ Positions(l, ">") = {Len(l) - 2}
          \/ Positions(l, ">") = {Len(l) - 3, Len(l) - 2}

PipeRuleOk(l) ==
    \A k \in Positions(l, "|") :
        0 < k /\ k < Len(l) - 1 /\ (k + 1) \notin Positions(l, "|")

ViolatedKinds(l) ==
    (IF InputRuleOk(l) THEN {} ELSE {"invalid input redirection"})
    \cup (IF OutputRuleOk(l) THEN {} ELSE {"invalid output redirection"})
    \cup (IF PipeRuleOk(l) THEN {} ELSE {"invalid pipe"})

Builtins == {"pwd", "cd", "history", "exit", "!"}

\* the line has a redirection or pipe token and names a builtin as its
\* command or as the first word of a pipeline stage
BuiltinWithRedirection(l) ==
    /\ l # <<>>
    /\ ViolatedKinds(l) = {}
    /\ \E k \in 1 .. Len(l) : l[k] \in {"<", ">", "|"}
    /\ \/ (IF HasIn(l) THEN l[3] ELSE l[1]) \in Builtins
       \/ \E j \in 1 .. Len(Stages(l)) :
            Stages(l)[j] # <<>> /\ Stages(l)[j][1] \in Builtins

\* the line is executed as read: no recall put other words in its place
\* and no glob pattern was rewritten
PlainLine == words = line

NoneSpawned == \A k \in StageIds : proc[k] = "none"

StatusLines == {j \in 1 .. Len(out) : out[j].kind = "status"}

LastStage == IF mode = "pipe" THEN pipe_count ELSE 0

(***************************************************************************)
(* The claims.                                                             *)
(***************************************************************************)
\* C1: a pipeline never deadlocks; in particular no reachable state has the
\* shell blocked in waitpid on stage k while stage k is blocked writing to a
\* full pipe whose reader, stage k+1, has not been spawned.  (Stated for
\* the lines that are executed word for word and have a program for every
\* stage.)
C1_NoWriterBlockedBeforeReader ==
    \A k \in 0 .. (MaxStages - 1) :
        ~ /\ PlainLine /\ Len(programs) = pipe_count + 1
          /\ mode = "pipe" /\ pc = "wait" /\ i = k
          /\ proc[k] = "alive"
          /\ child[k].toWrite > 0
          /\ child[k].stdout = Pipe(k)
          /\ pipeBuf[k] = PipeCap
          /\ proc[k + 1] = "none"

\* C2: when pipes() returns after a run in which every stage was spawned and
\* waited for, the shell holds no open end of any of its pipes.  (Stated for
\* the lines that are executed word for word.)
C2_NoPipeEndHeldOnReturn ==
    (PlainLine /\ pc = "done" /\ mode = "pipe" /\ proc[pipe_count] = "waited")
        => parentFds = {}

\* C3: in a pipeline of N stages every spawned stage k is one of the N
\* segments of the line, has the words of segment k as its arguments, reads
\* the input file (k = 0 with `<'), pipe k-1 (k > 0) or the inherited input,
\* and writes the output file (k = N-1 with `>'), pipe k (k < N-1) or the
\* inherited output.
C3_StageWiring ==
    \A k \in StageIds :
        (mode = "pipe" /\ proc[k] # "none") =>
            /\ k < Len(Stages(words))
            /\ child[k].argv = Stages(words)[k + 1]
            /\ child[k].stdin =
                  IF k > 0 THEN Pipe(k - 1)
                  ELSE IF HasIn(words) THEN File(At(words, 1)) ELSE Inherit
            /\ child[k].stdout =
                  IF k < Len(Stages(words)) - 1 THEN Pipe(k)
                  ELSE IF OutLen(words) > 0 THEN File(words[Len(words)])
                  ELSE Inherit

\* C4: when execute_command has returned and the shell is about to take the
\* next line, every child spawned for the line has been waited for: none is
\* still running and none is left as an unreaped zombie.
C4_AllWaitedBeforeNextLine ==
    pc = "done" => \A k \in StageIds : proc[k] \in {"none", "waited"}

\* a pipeline whose second stage failed to spawn after its first stage ran
C4_Witness ==
    /\ pc = "done" /\ mode = "pipe"
    /\ proc[0] = "waited" /\ proc[1] = "none"
    /\ \E j \in 1 .. Len(out) : out[j] = Error("spawn", "")

\* C5: the stages of a pipeline are spawned without waiting in between, so
\* whenever the shell waits for a stage every stage of the pipeline has been
\* spawned.  (Stated for the lines that are executed word for word and have
\* a program for every stage.)
C5_WaitsOnlyAfterAllSpawned ==
    (PlainLine /\ Len(programs) = pipe_count + 1 /\ mode = "pipe" /\ pc = "wait")
        => \A k \in 0 .. pipe_count : proc[k] # "none"

\* C6: a command that is spawned and exits gets exactly one status line; it
\* names the path and the exit code of the final stage, is printed only when
\* every stage has been waited for, and no earlier stage gets a line.
C6_OneStatusLine ==
    /\ Cardinality(StatusLines) <= 1
    /\ \A j \in StatusLines : out[j].stage = LastStage
    /\ \A j \in StatusLines :
          proc[LastStage] # "none" =>
              /\ out[j].what = child[LastStage].path
              /\ is_executable(out[j].what)
              /\ out[j].arg = exit_status
              /\ \A k \in 0 .. LastStage : proc[k] = "waited"
    /\ (pc = "done" /\ proc[LastStage] = "waited" /\ WIFEXITED(exit_status))
          => Cardinality(StatusLines) = 1

\* a pipeline of three stages has run to its end and printed its line
C6_Witness ==
    /\ pc = "done" /\ mode = "pipe" /\ pipe_count = 2
    /\ proc[2] = "waited" /\ exit_status = "exit1"
    /\ StatusLines # {}

\* C7: a line that breaks a positional rule for `<', `>' or `|' is given up
\* with the error of a rule it breaks and nothing else: no child is spawned,
\* no builtin runs, the shell does not exit.
C7_GrammarViolationAborts ==
    (pc # "idle" /\ ViolatedKinds(line) # {}) =>
        /\ pc = "done"
        /\ Len(out) = 1
        /\ out[1].kind = "error"
        /\ out[1].what \in ViolatedKinds(line)
        /\ mode = "none"
        /\ NoneSpawned

\* a line that breaks the output and the pipe rule at once
C7_Witness ==
    /\ pc = "done"
    /\ ViolatedKinds(line) = {"invalid output redirection", "invalid pipe"}
    /\ out = <<Error("invalid output redirection", "")>>

\* C8: a line that is right by the grammar, has a `<', `>' or `|' and names
\* a builtin (pwd, cd, history, exit, !) as its command or as a stage is
\* rejected with the builtin-redirection error; the builtin does not act
\* (the shell does not exit) and nothing is spawned.
C8_BuiltinsRejectRedirection ==
    (pc # "idle" /\ BuiltinWithRedirection(line)) =>
        /\ pc = "done"
        /\ \E j \in 1 .. Len(out) :
              out[j].kind = "error" /\ out[j].what = BuiltinRedir
        /\ \A j \in 1 .. Len(out) : out[j].kind # "builtin"
        /\ NoneSpawned

\* C9: for an accepted line with p >= 1 pipes, get_programs returns p + 1
\* programs, one for each spawn of pipes, and every stage has a non-empty
\* argument list.  (Stated for the lines that are executed word for word.)
C9_StageCountIsPipesPlusOne ==
    (PlainLine /\ mode = "pipe" /\ pc \in {"spawn", "wait", "done"}) =>
        /\ Len(programs) = pipe_count + 1
        /\ \A k \in 0 .. pipe_count :
              ~ArgsOf(k).crash /\ ArgsOf(k).args # <<>>

\* C10: a redirected command or a pipeline whose input file is missing or
\* cannot be read, or whose existing output file cannot be written, reports
\* an error and spawns no process, not even the first stage.  (Stated for
\* the lines that are executed word for word and have a program for every
\* stage.)
C10_FileChecksBeforeAnySpawn ==
    ( /\ PlainLine
      /\ mode \in {"redir", "pipe"}
      /\ Len(programs) = LastStage + 1
      /\ \/ input_r > 0 /\ ~CanOpen(inKind)
         \/ output_r > 0 /\ outKind # "absent" /\ ~CanOpen(outKind) ) =>
        /\ NoneSpawned
        /\ pc = "done" => \E j \in 1 .. Len(out) : out[j].kind = "error"

\* C11: when a command with an output redirection has run to its end, the
\* file holds exactly the bytes the command wrote (single `>'), or the bytes
\* it held before followed by the bytes the command wrote (`> >'); a file
\* that did not exist holds the bytes written.  (Stated for the lines that
\* are executed word for word.)
C11_OutputModeHonoured ==
    ( /\ PlainLine
      /\ pc = "done" /\ mode \in {"redir", "pipe"} /\ output_r > 0
      /\ proc[LastStage] = "waited"
      /\ child[LastStage].stdout.kind = "file" ) =>
        outFile.data =
            (IF output_r = 2 THEN outFile.prior ELSE <<>>)
                \o Bytes("new", outFile.off)

\* the first word of every command segment, when no segment is empty
FullStages(l) == \A j \in 1 .. Len(Stages(l)) : Stages(l)[j] # <<>>

Heads(l) == [j \in 1 .. Len(Stages(l)) |-> Stages(l)[j][1]]

\* where the specification finds a program token without '/': the first
\* directory of the search path that holds an executable file of that name
OnPath(tok) == {k \in 1 .. Len(path) : (path[k] \o "/" \o tok) \in ExecFiles}

FirstOnPath(tok) ==
    path[CHOOSE k \in OnPath(tok) : \A m \in OnPath(tok) : k <= m] \o "/" \o tok

\* a line of external commands that is right by the grammar
ExternalLine(l) ==
    /\ l # <<>> /\ ViolatedKinds(l) = {} /\ FullStages(l)
    /\ \A j \in 1 .. Len(Heads(l)) : Heads(l)[j] \notin Builtins

\* C12: a program token without '/' is looked for in the directories of the
\* search path in order and runs from the first that holds it; when none
\* holds it the line ends with `command not found' and nothing is spawned,
\* whatever the current directory holds.  (Stated for the lines that are
\* executed word for word.)
C12_PathSearch ==
    (PlainLine /\ pc # "idle" /\ ExternalLine(line)) =>
        /\ \A k \in StageIds :
              ( /\ proc[k] # "none"
                /\ k < Len(Heads(line))
                /\ Heads(line)[k + 1] \notin SlashTokens ) =>
                  /\ OnPath(Heads(line)[k + 1]) # {}
                  /\ child[k].path = FirstOnPath(Heads(line)[k + 1])
        /\ (\E j \in 1 .. Len(Heads(line)) :
               Heads(line)[j] \notin SlashTokens /\ OnPath(Heads(line)[j]) = {})
             => /\ NoneSpawned
                /\ pc = "done"
                /\ \E j \in 1 .. Len(out) :
                      out[j].kind = "error" /\ out[j].what = "command not found"

\* C13: a program token with a '/' is used as it is and must be an executable
\* file before anything is spawned, for a single command and for every stage
\* of a pipeline; when one is not, the line ends with `command not found' and
\* no stage is spawned.  (Stated for the lines that are executed word for
\* word.)
C13_SlashTokenChecked ==
    (PlainLine /\ pc # "idle" /\ ExternalLine(line)) =>
        /\ \A k \in StageIds :
              ( /\ proc[k] # "none"
                /\ k < Len(Heads(line))
                /\ Heads(line)[k + 1] \in SlashTokens ) =>
                  child[k].path = Heads(line)[k + 1]
        /\ (\E j \in 1 .. Len(Heads(line)) :
               Heads(line)[j] \in SlashTokens /\ Heads(line)[j] \notin ExecFiles)
             => /\ NoneSpawned
                /\ pc = "done"
                /\ \E j \in 1 .. Len(out) :
                      out[j].kind = "error" /\ out[j].what = "command not found"

\* C14: the words the runners execute are the words the validator checked:
\* every `<', `>' and `|' in them is at a place the grammar allows, the
\* word count and the counts of `<', `>' and `|' are theirs, and the output
\* file is their last word.
C14_ExecutedSequenceIsValidated ==
    (mode # "none" /\ pc \in {"spawn", "wait", "done"}) =>
        /\ ViolatedKinds(words) = {}
        /\ number_arguments = Len(words)
        /\ input_r = Cardinality(Positions(words, "<"))
        /\ output_r = Cardinality(Positions(words, ">"))
        /\ pipe_count = Cardinality(Positions(words, "|"))
        /\ output_r > 0 => At(words, number_arguments - 1) = words[Len(words)]

\* the line reached check_glob as typed: it was recorded, and is not exit
GlobStepReached ==
    /\ pc # "idle" /\ line # <<>> /\ line[1] # "!"
    /\ history # <<>> /\ history[Len(history)] = line
    /\ (IF line[1] = "<" THEN At(line, 2) ELSE line[1]) # "exit"

\* every pattern of l replaced at its position by the matches m
RECURSIVE InPlace(_, _)
InPlace(l, m) ==
    IF l = <<>> THEN <<>>
    ELSE (IF Head(l) \in GlobTokens THEN m ELSE <<Head(l)>>)
             \o InPlace(Tail(l), m)

\* C15: glob expansion rewrites only the tokens with a metacharacter, in
\* place: a line without one is unchanged; otherwise each pattern, at any
\* position, is replaced by its matches (or by itself when nothing matches)
\* and every other token is kept, in order.
C15_GlobInPlace ==
    GlobStepReached =>
        IF HasGlob(line) THEN \E m \in GlobResults : words = InPlace(line, m)
        ELSE words = line

\* C16: the history log is append-only: a record adds exactly one entry,
\* numbered one more than the last, and leaves every earlier entry as it
\* was; the entries are those the readers of the file number (data[0],
\* data[1], ...).
C16_OneEntryPerRecord ==
    /\ txt.step = "stored" =>
          ReadData(txt.file) = <<store_text(txt.command_words)>>
    /\ (txt.step = "recorded" /\ ~txt.stale) =>
          /\ Len(ReadData(txt.file)) = 2
          /\ ReadData(txt.file)[1] = store_text(txt.command_words)

\* C17: reading a line with at least one token adds exactly one entry to
\* the history, whatever becomes of the line afterwards; a line without
\* tokens adds none.  (Stated for the lines that do not start with `!'.)
C17_EveryLineRecorded ==
    [][ (linesRead' = linesRead + 1 /\ (line' = <<>> \/ line'[1] # "!")) =>
            Len(history') = Len(history) + (IF line' = <<>> THEN 0 ELSE 1) ]_vars

\* the entry a `!' line asks for: the last one, or the one numbered N
RecallTarget(l, hist) ==
    IF Len(l) = 1 THEN Len(hist) ELSE Decimal(l[2]).low + 1

RecallSucceeds(l, hist, exists) ==
    /\ exists /\ l # <<>> /\ l[1] = "!"
    /\ Len(l) = 1 \/ (Len(l) = 2 /\ l[2] \in NumTokens /\ Decimal(l[2]).high = 0)
    /\ RecallTarget(l, hist) \in 1 .. Len(hist)

\* C18: when a line starting with `!' recalls an entry, the entry replaces
\* the line before validation, recording and execution: the entry appended
\* to the history is the recalled text, not the `!' line, and the words
\* taken on are the recalled ones (they are not looked up again).
C18_RecalledLineRecorded ==
    [][ (linesRead' = linesRead + 1
         /\ RecallSucceeds(line', history, histExists)) =>
           LET e == history[RecallTarget(line', history)] IN
           /\ history' = Append(history, e)
           /\ ~HasGlob(e) => words' = e ]_vars

\* C19: a bare `!' recalls the most recently recorded entry; when the log
\* holds no entry (file absent or empty) it is an error: nothing is
\* substituted, recorded or executed.
C19_BangRecallsLast ==
    [][ (linesRead' = linesRead + 1 /\ line' = <<"!">>) =>
           IF histExists /\ history # <<>>
           THEN history' = Append(history, history[Len(history)])
           ELSE /\ history' = history
                /\ words' = line'
                /\ pc' = "done" /\ mode' = "none"
                /\ \E k \in 1 .. Len(out') : out'[k].kind = "error" ]_vars

\* C20: `! N' recalls the entry numbered N when N is within the recorded
\* range; when N is greater than the highest number it reports `invalid
\* history reference' and nothing is substituted, recorded or executed.
\* (In range, the text a stale read of the recalled line yields is let
\* through.)
C20_RecallByNumber ==
    [][ (/\ linesRead' = linesRead + 1 /\ histExists
         /\ Len(line') = 2 /\ line'[1] = "!" /\ line'[2] \in NumTokens) =>
           IF RecallSucceeds(line', history, histExists)
           THEN \/ words' \in StaleText
                \/ /\ words' = history[RecallTarget(line', history)]
                   /\ history' = Append(history, words')
           ELSE /\ history' = history
                /\ words' = line'
                /\ mode' = "none"
                /\ \E k \in 1 .. Len(out') :
                      out'[k] = Error("invalid history reference", "!") ]_vars

\* the rows of the listing that were printed
Rows == SelectSeq(out, LAMBDA m : m.kind = "row")

\* the last n entries of the log, oldest first, each with its number
LastEntries(n, hist) ==
    [j \in 1 .. n |-> Row(Len(hist) - n + j - 1, hist[Len(hist) - n + j])]

\* how many entries `history tok' asks for, never more than the log holds
Asked(l, hist) ==
    IF Len(l) = 1
    THEN (IF DEFAULT_HISTORY_SHOWN < Len(hist)
          THEN DEFAULT_HISTORY_SHOWN ELSE Len(hist))
    ELSE IF Decimal(l[2]).high = 0 /\ Decimal(l[2]).low < Len(hist)
    THEN Decimal(l[2]).low
    ELSE Len(hist)

\* C21: `history n' lists the last n entries of the log (all of them when
\* there are fewer), oldest first, each with its number; n is 10 when no
\* argument is given; more than one argument or a non-numeric one is an
\* error and lists nothing.
C21_HistoryListsLastN ==
    (pc = "done" /\ line # <<>> /\ line[1] = "history" /\ words = line) =>
        IF Len(line) = 1 \/ (Len(line) = 2 /\ line[2] \in NumTokens)
        THEN Rows = LastEntries(Asked(line, history), history)
        ELSE /\ Rows = <<>>
             /\ \E k \in 1 .. Len(out) : out[k].kind = "error"

GrammarErrors ==
    {"invalid input redirection", "invalid output redirection", "invalid pipe"}

\* the validator refused the line as typed, with this message
Rejected(what) ==
    /\ pc = "done" /\ mode = "none" /\ NoneSpawned
    /\ out = <<Error(what, "")>>

\* the validator let the line as typed through
Accepted ==
    ~(out # <<>> /\ out[1].kind = "error" /\ out[1].what \in GrammarErrors)

\* C22: a `<' is accepted only as the first word of a line of at least 3
\* words: a line with a `<' elsewhere, or with a `<' and fewer than 3 words,
\* is refused with the input redirection error; in an accepted line with a
\* `<' the input file is the second word and the command the third.
C22_InputRule ==
    (pc # "idle" /\ Positions(line, "<") # {}) =>
        /\ ~InputRuleOk(line) => Rejected("invalid input redirection")
        /\ Accepted =>
              /\ Positions(line, "<") = {0} /\ Len(line) >= 3
              /\ input_r = 1
              /\ (mode # "none" /\ PlainLine) =>
                    /\ programs[1] = Resolve(line[3])
                    /\ inKind \in KindsOf(line[2])

\* a line with a `<' out of place and a `|' out of place: the input error
C22_Witness ==
    /\ Positions(line, "<") # {} /\ ~InputRuleOk(line) /\ ~PipeRuleOk(line)
    /\ Rejected("invalid input redirection")

\* C23 amended: `>' is accepted only as a single `>' second from the end or
\* as two `>' third and second from the end, in a line of at least 3 words
\* and never as its first word; any other placement is refused, with the
\* output redirection error unless the line also breaks the rule for `<',
\* which is then the error reported; an accepted line has an output count
\* of 0, 1 or 2, the number of its `>'.
C23_OutputRule ==
    (pc # "idle" /\ line # <<>>) =>
        /\ ~OutputRuleOk(line) =>
              IF InputRuleOk(line)
              THEN Rejected("invalid output redirection")
              ELSE Rejected("invalid input redirection")
        /\ Accepted =>
              /\ OutputRuleOk(line)
              /\ output_r = Cardinality(Positions(line, ">"))
              /\ output_r \in 0 .. 2

\* C23 as stated: every line with a `>' out of place is refused with the
\* output redirection error.
C23_OutputErrorAlways ==
    (pc # "idle" /\ line # <<>> /\ ~OutputRuleOk(line)) =>
        Rejected("invalid output redirection")

\* a line of three words that starts with two `>': refused
C23_Witness ==
    /\ Len(line) = 3 /\ Positions(line, ">") = {0, 1}
    /\ Rejected("invalid output redirection")

\* C24 amended: a line with a `|' as its first word, as its last word or
\* right after another `|' is refused, with the pipe error unless the line
\* also breaks the rule for `<' or for `>', whose error (input first) is
\* then the one reported; an accepted line has a pipe count equal to the
\* number of its `|'.
C24_PipeRule ==
    (pc # "idle" /\ line # <<>>) =>
        /\ ~PipeRuleOk(line) =>
              IF ~InputRuleOk(line)
              THEN Rejected("invalid input redirection")
              ELSE IF ~OutputRuleOk(line)
              THEN Rejected("invalid output redirection")
              ELSE Rejected("invalid pipe")
        /\ Accepted =>
              /\ PipeRuleOk(line)
              /\ pipe_count = Cardinality(Positions(line, "|"))

\* C24 as stated: every line with a `|' out of place is refused with the
\* pipe error.
C24_PipeErrorAlways ==
    (pc # "idle" /\ line # <<>> /\ ~PipeRuleOk(line)) =>
        Rejected("invalid pipe")

\* two `|' in a row inside a line of four words: refused
C24_Witness ==
    /\ Len(line) = 4 /\ Positions(line, "|") = {1, 2}
    /\ Rejected("invalid pipe")

(***************************************************************************)
(* The text of a line and its tokens.                                      *)
(***************************************************************************)
RECURSIVE Flat(_)
Flat(t) == IF t = <<>> THEN <<>> ELSE Head(t) \o Flat(Tail(t))

Ordinary(c) == c \notin WORD_SEPARATORS /\ c \notin SPECIAL_CHARS

\* the places of x where a special character stands or a run of ordinary
\* characters starts
TokenStarts(x) ==
    {p \in 1 .. Len(x) :
        \/ x[p] \in SPECIAL_CHARS
        \/ Ordinary(x[p]) /\ (p = 1 \/ ~Ordinary(x[p - 1]))}

\* C25: tokenize isolates the special characters: every `!', `<', `>' or
\* `|' of the line is a token of one character, with or without blanks
\* around it; every other token is a maximal run of characters that are
\* neither separators nor special; no token is empty or holds a separator;
\* the tokens come in the order of the line.
C25_TokenizeIsolatesSpecials ==
    txt.step \notin {"off", "read"} =>
        /\ Flat(txt.command_words)
              = SelectSeq(txt.line, LAMBDA c : c \notin WORD_SEPARATORS)
        /\ \A k \in 1 .. Len(txt.command_words) :
              /\ txt.command_words[k] # <<>>
              /\ \A p \in 1 .. Len(txt.command_words[k]) :
                    /\ txt.command_words[k][p] \notin WORD_SEPARATORS
                    /\ txt.command_words[k][p] \in SPECIAL_CHARS
                          => Len(txt.command_words[k]) = 1
        /\ Len(txt.command_words) = Cardinality(TokenStarts(txt.line))

\* the line a>>a
C25_Witness ==
    /\ txt.step = "tokenized"
    /\ txt.line = <<"a", ">", ">", "a", "\n">>
    /\ txt.command_words = << <<"a">>, <<">">>, <<">">>, <<"a">> >>

\* C26: no error ends the shell: it neither aborts nor exits after a line
\* that printed an error, wherever a builtin stands after a `<'; it ends
\* only at the end of input or on a valid exit.  (Stated for the lines
\* executed word for word that do not start with `!'.)
C26_NoErrorEndsTheShell ==
    (PlainLine /\ (line = <<>> \/ line[1] # "!")) =>
        /\ pc # "crashed"
        /\ pc = "exited" => \A k \in 1 .. Len(out) : out[k].kind # "error"

\* the messages of the line that are errors
Errors == {k \in 1 .. Len(out) : out[k].kind = "error"}

\* C27: an error ends the line where it occurs, with exactly one
\* diagnostic: there is never a second one and nothing is printed after
\* it.  (Stated for the lines executed word for word that do not start
\* with `!'.)
C27_OneDiagnosticThenStop ==
    (PlainLine /\ (line = <<>> \/ line[1] # "!")) =>
        /\ Cardinality(Errors) <= 1
        /\ \A k \in Errors : k = Len(out)

\* C28: whenever a stage k > 0 is alive and reads pipe k-1, the write end
\* of that pipe is open in no process but stage k-1: not in the shell, not
\* in stage k, not in any other stage.
C28_OnlyTheWriterHoldsTheWriteEnd ==
    \A k \in StageIds :
        (k > 0 /\ proc[k] = "alive" /\ child[k].stdin.kind = "pipe") =>
            /\ <<child[k].stdin.pipe, "w">> \notin parentFds
            /\ \A j \in StageIds :
                  (proc[j] = "alive" /\ j # child[k].stdin.pipe) =>
                      <<child[k].stdin.pipe, "w">> \notin child[j].fds

\* the last stage of a three-stage pipeline, alive and reading pipe 1
C28_Witness ==
    /\ mode = "pipe" /\ pipe_count = 2
    /\ proc[2] = "alive" /\ child[2].stdin = Pipe(1)
    /\ proc[1] = "waited" /\ pipeBuf[1] > 0

\* C29: recording and recalling round-trips the words: the text stored for
\* the words of a line tokenizes to the same words, so the recall of the
\* entry (the text coming back as it was stored) takes on the words that
\* were recorded, and records an entry with the same text.
C29_RecordRecallRoundTrip ==
    /\ txt.step \notin {"off", "read"} =>
          tokenize(store_text(txt.command_words)) = txt.command_words
    /\ (txt.step \in {"loaded", "recorded"} /\ ~txt.stale) =>
          txt.words = txt.command_words
    /\ (txt.step = "recorded" /\ ~txt.stale) =>
          txt.file = store_text(txt.command_words)
                         \o store_text(txt.command_words)

\* C30: the numbers `history' prints and the numbers `!N' takes name the
\* same entries: each listed number N is the index of its entry, counted
\* from 0 for the oldest, `!N' recalls the text printed beside N and
\* nothing else, and the `history' line itself is in the log when the
\* listing is made.
C30_ListedNumbersRecall ==
    (pc = "done" /\ line # <<>> /\ line[1] = "history" /\ PlainLine
     /\ Rows # <<>>) =>
        /\ history[Len(history)] = line
        /\ \A k \in 1 .. Len(Rows) :
              /\ Rows[k].text = history[Rows[k].stage + 1]
              /\ \A ld \in load_command(Rows[k].stage, history, histExists) :
                    ld.ptr # NULL /\ ld.w = Rows[k].text

====
